---- MODULE Spec2Model ----
(***************************************************************************)
(* The Posts component of the endless-scrolling list (src/Posts.js, kept   *)
(* here as src/unnamed/part_001): its state (pagination, posts, ds), the   *)
(* three request handlers (_getPostsRequest / Success / Failure), the two  *)
(* gesture handlers (_onRefresh, _onEndReached) and the promises of        *)
(* API.getPosts that are still pending.                                    *)
(*                                                                         *)
(* Every handler runs to completion on the single JavaScript thread, and   *)
(* each one reads this.state once and calls _update (one setState) once,   *)
(* so a handler is one atomic action.                                      *)
(***************************************************************************)
EXTENDS Integers, Sequences, FiniteSets, TLC

VARIABLES
    mounted,      \* componentWillMount has run
    pagination,   \* this.state.pagination: a JS object, as a function on its keys
    posts,        \* this.state.posts
    ds,           \* the rows of this.state.ds (the render list)
    inflight,     \* pending promises of API.getPosts, oldest request first
    calls,        \* the page arguments API.getPosts has been called with, in order
    budget,       \* how many more calls of API.getPosts the behaviour may make
    server,       \* the collection a uniform-page collaborator serves
    event,        \* history: the handler that ran last
    settled,      \* history: <<the fetch that handler settled>>, or << >>
    delivered     \* history: <<the result that handler was given>>, or << >>

vars == <<mounted, pagination, posts, ds, inflight, calls, budget, server,
          event, settled, delivered>>

(* ------------------------------ bounds -------------------------------- *)

\* API.getPosts is called at most this many times in a behaviour of Spec.
MaxFetches == 3
\* API.getPosts is called at most this many times in a behaviour of SpecMock.
MaxMockFetches == 4
\* The general collaborator reports a totalCount of at most this.
MaxTotal == 2

\* API.getPosts is called at most this many times in a behaviour of SpecUniform.
MaxUniformFetches == 4
\* A uniform-page collaborator serves at most this many posts ...
MaxUniTotal == 6
\* ... in pages of at most this many.
MaxUniPerPage == 3

\* The page sizes the general collaborator reports.
PerPages == {1, 2}
\* The titles of the posts the general collaborator serves.
Titles == {1, 2}

(* --------------------------- JavaScript values ------------------------ *)

\* The value of a property that an object does not have.
JsUndefined == -1
\* The result of arithmetic on undefined.
JsNaN == -2

IsNumber(x) == x # JsUndefined /\ x # JsNaN

JsAdd(a, b) == IF IsNumber(a) /\ IsNumber(b) THEN a + b ELSE JsNaN
JsSub(a, b) == IF IsNumber(a) /\ IsNumber(b) THEN a - b ELSE JsNaN
JsMul(a, b) == IF IsNumber(a) /\ IsNumber(b) THEN a * b ELSE JsNaN
\* a <= b: false as soon as one side converts to NaN.
JsLe(a, b) == IsNumber(a) /\ IsNumber(b) /\ a <= b

\* obj.key, for the numeric keys of the pagination object.
Get(obj, key) == IF key \in DOMAIN obj THEN obj[key] ELSE JsUndefined

\* The truthiness of obj.loading (undefined is falsy).
Loading(obj) == "loading" \in DOMAIN obj /\ obj["loading"]

\* { ...obj, loading: b }
SpreadLoading(obj, b) ==
    [k \in (DOMAIN obj) \cup {"loading"} |-> IF k = "loading" THEN b ELSE obj[k]]

\* {}
EmptyObject == [k \in {} |-> 0]

(* ------------------------------- rows --------------------------------- *)

\* A post: { title, description }; the controller never looks inside.
Post(k) == [title |-> k, description |-> k]

\* const loading = { type: 'Loading', loading: pagination.loading }
LoadingRow(p) == [type |-> "Loading", loading |-> Loading(p)]

\* Mutant of Rows: the marker is put first.
RowsMarkerFirst(p, ps) == <<LoadingRow(p)>> \o ps

\* [ ...posts, loading ]
Rows(p, ps) == Append(ps, LoadingRow(p))

(* --------------------------- the controller --------------------------- *)

\* _update(pagination, posts): the one setState of every handler.
_update(p, ps) ==
    /\ pagination' = p
    /\ posts' = ps
    /\ ds' = Rows(p, ps)

\* Mutant of _getPostsRequest: { loading: true } without the spread.
_getPostsRequestResets ==
    _update(SpreadLoading(EmptyObject, TRUE), posts)

_getPostsRequest ==
    _update(SpreadLoading(pagination, TRUE), posts)

\* Mutant of MergePosts: the new records are put in front.
MergePostsPrepend(page, old, records) ==
    IF page = 1 THEN records ELSE records \o old

\* Mutant of MergePosts: appends only the records the list does not hold yet.
MergePostsDedup(page, old, records) ==
    IF page = 1 THEN records
    ELSE old \o SelectSeq(records, LAMBDA x : \A i \in DOMAIN old : old[i] # x)

\* pagination.page === 1 ? result.records : [ ...this.state.posts, ...result.records ]
MergePosts(page, old, records) ==
    IF page = 1 THEN records ELSE old \o records

_getPostsSuccess(result) ==
    LET p == SpreadLoading(result.pagination, FALSE)
    IN  _update(p, MergePosts(Get(p, "page"), posts, result.records))

\* Mutant of _getPostsFailure: { loading: false } without the spread.
_getPostsFailureResets ==
    _update(SpreadLoading(EmptyObject, FALSE), posts)

\* Mutant of _getPostsFailure: falls back to what the list held when it was empty.
_getPostsFailureClears ==
    _update(SpreadLoading(pagination, FALSE), << >>)

_getPostsFailure ==
    _update(SpreadLoading(pagination, FALSE), posts)

\* A pending promise; posts0 is history: this.state.posts when it was requested.
Fetch(page) == [page |-> page, posts0 |-> posts]

\* _getPosts(page): _getPostsRequest(), then API.getPosts(page) is pending.
_getPosts(page) ==
    /\ budget > 0
    /\ budget' = budget - 1
    /\ _getPostsRequest
    /\ inflight' = Append(inflight, Fetch(page))
    /\ calls' = Append(calls, page)

\* Mutant of LastPage: the posts of the current page are not counted.
LastPageIgnoresCount(p) ==
    JsLe(Get(p, "totalCount"), JsMul(JsSub(Get(p, "page"), 1), Get(p, "perPage")))

\* Mutant of LastPage: < where the code has <=.
LastPageStrict(p) ==
    LET sum == JsAdd(JsMul(JsSub(Get(p, "page"), 1), Get(p, "perPage")), Get(p, "pageCount"))
    IN  JsLe(Get(p, "totalCount"), sum) /\ Get(p, "totalCount") # sum

\* const lastPage = totalCount <= (page - 1) * perPage + pageCount
LastPage(p) ==
    JsLe(Get(p, "totalCount"),
         JsAdd(JsMul(JsSub(Get(p, "page"), 1), Get(p, "perPage")), Get(p, "pageCount")))

\* Mutant of WantsNextPage: the loading flag is not consulted.
WantsNextPageWhileLoading(p) == ~LastPage(p)

\* if (!pagination.loading && !lastPage)
WantsNextPage(p) == ~Loading(p) /\ ~LastPage(p)

Remove(s, i) == SubSeq(s, 1, i - 1) \o SubSeq(s, i + 1, Len(s))

(* ------------------------------ actions ------------------------------- *)

componentWillMount ==
    /\ ~mounted
    /\ mounted' = TRUE
    /\ _getPosts(1)
    /\ event' = "mount"
    /\ settled' = << >>
    /\ delivered' = << >>
    /\ UNCHANGED server

\* Mutant of _onRefresh: a refresh during a fetch is dropped.
_onRefreshIfIdle ==
    /\ mounted
    /\ IF Loading(pagination)
          THEN UNCHANGED <<pagination, posts, ds, inflight, calls, budget>>
          ELSE _getPosts(1)
    /\ event' = "onRefresh"
    /\ settled' = << >>
    /\ delivered' = << >>
    /\ UNCHANGED <<mounted, server>>

_onRefresh ==
    /\ mounted
    /\ _getPosts(1)
    /\ event' = "onRefresh"
    /\ settled' = << >>
    /\ delivered' = << >>
    /\ UNCHANGED <<mounted, server>>

\* Mutant of _onEndReached: asks for the page after the highest one requested.
_onEndReachedAfterHighest ==
    /\ mounted
    /\ IF WantsNextPage(pagination)
          THEN _getPosts(JsAdd(CHOOSE n \in {calls[i] : i \in DOMAIN calls} :
                                  \A i \in DOMAIN calls : calls[i] <= n, 1))
          ELSE UNCHANGED <<pagination, posts, ds, inflight, calls, budget>>
    /\ event' = "onEndReached"
    /\ settled' = << >>
    /\ delivered' = << >>
    /\ UNCHANGED <<mounted, server>>

\* Mutant of _onEndReached: asks for the page after the next one.
_onEndReachedSkipsPage ==
    /\ mounted
    /\ IF WantsNextPage(pagination)
          THEN _getPosts(JsAdd(Get(pagination, "page"), 2))
          ELSE UNCHANGED <<pagination, posts, ds, inflight, calls, budget>>
    /\ event' = "onEndReached"
    /\ settled' = << >>
    /\ delivered' = << >>
    /\ UNCHANGED <<mounted, server>>

_onEndReached ==
    /\ mounted
    /\ IF WantsNextPage(pagination)
          THEN _getPosts(JsAdd(Get(pagination, "page"), 1))
          ELSE UNCHANGED <<pagination, posts, ds, inflight, calls, budget>>
    /\ event' = "onEndReached"
    /\ settled' = << >>
    /\ delivered' = << >>
    /\ UNCHANGED <<mounted, server>>

\* Mutant of Resolve: only the response of the latest pending request is applied.
ResolveLatestOnly(i, result) ==
    /\ IF i = Len(inflight)
          THEN _getPostsSuccess(result)
          ELSE UNCHANGED <<pagination, posts, ds>>
    /\ inflight' = Remove(inflight, i)
    /\ event' = "success"
    /\ settled' = <<inflight[i]>>
    /\ delivered' = <<result>>
    /\ UNCHANGED <<mounted, calls, budget, server>>

\* .then(result => this._getPostsSuccess(result))
Resolve(i, result) ==
    /\ _getPostsSuccess(result)
    /\ inflight' = Remove(inflight, i)
    /\ event' = "success"
    /\ settled' = <<inflight[i]>>
    /\ delivered' = <<result>>
    /\ UNCHANGED <<mounted, calls, budget, server>>

\* Mutant of Reject: the failed page is requested again.
RejectRetries(i) ==
    /\ budget > 0
    /\ budget' = budget - 1
    /\ _getPostsRequest
    /\ inflight' = Append(Remove(inflight, i), Fetch(inflight[i].page))
    /\ calls' = Append(calls, inflight[i].page)
    /\ event' = "failure"
    /\ settled' = <<inflight[i]>>
    /\ delivered' = << >>
    /\ UNCHANGED <<mounted, server>>

\* .catch(error => this._getPostsFailure(error))
Reject(i) ==
    /\ _getPostsFailure
    /\ inflight' = Remove(inflight, i)
    /\ event' = "failure"
    /\ settled' = <<inflight[i]>>
    /\ delivered' = << >>
    /\ UNCHANGED <<mounted, calls, budget, server>>

(* ------------------------ the fetch collaborator ---------------------- *)

RECURSIVE SeqsUpTo(_, _)
SeqsUpTo(S, n) ==
    IF n = 0 THEN {<< >>}
    ELSE LET shorter == SeqsUpTo(S, n - 1)
         IN  shorter \cup {Append(s, x) : s \in shorter, x \in S}

Result(page, perPage, totalCount, records) ==
    [pagination |-> [page |-> page, perPage |-> perPage,
                     pageCount |-> Len(records), totalCount |-> totalCount],
     records |-> records]

\* Any collaborator: the page asked for, with any metadata and any records.
AnyResult(page) ==
    UNION {{Result(page, pp, t, r) :
                t \in 0..MaxTotal,
                r \in SeqsUpTo({Post(k) : k \in Titles}, pp)} :
           pp \in PerPages}

FetchResolved == \E i \in DOMAIN inflight :
                    \E result \in AnyResult(inflight[i].page) : Resolve(i, result)

FetchRejected == \E i \in DOMAIN inflight : Reject(i)

(* --------------------------- specification ---------------------------- *)

\* The state the constructor leaves, with n calls of API.getPosts to come.
Constructed(n) ==
    /\ mounted = FALSE
    /\ pagination = EmptyObject
    /\ posts = << >>
    /\ ds = << >>
    /\ inflight = << >>
    /\ calls = << >>
    /\ event = "init"
    /\ settled = << >>
    /\ delivered = << >>
    /\ budget = n

\* The collection of a collaborator that is not a uniform-page one.
NoServer == [perPage |-> 0, totalCount |-> 0]

Init == Constructed(MaxFetches) /\ server = NoServer

Next ==
    \/ componentWillMount
    \/ _onRefresh
    \/ _onEndReached
    \/ FetchResolved
    \/ FetchRejected

Spec == Init /\ [][Next]_vars

\* The behaviours of Spec in which onRefresh is never delivered.
NextNoRefresh ==
    \/ componentWillMount
    \/ _onEndReached
    \/ FetchResolved
    \/ FetchRejected

SpecNoRefresh == Init /\ [][NextNoRefresh]_vars

(* -------------------------- the mock collaborator --------------------- *)

\* The mock API serves MockTotal posts in pages of MockPerPage.
MockPerPage == 10
MockTotal == 22

Min(a, b) == IF a <= b THEN a ELSE b
Max(a, b) == IF a >= b THEN a ELSE b

\* The number of posts on a page of the mock API.
MockPageCount(page) == Max(0, Min(MockPerPage, MockTotal - (page - 1) * MockPerPage))

MockRecords(page) ==
    [i \in 1..MockPageCount(page) |-> Post((page - 1) * MockPerPage + i)]

MockResult(page) == Result(page, MockPerPage, MockTotal, MockRecords(page))

MockResolved == \E i \in DOMAIN inflight : Resolve(i, MockResult(inflight[i].page))

InitMock ==
    /\ Constructed(MaxMockFetches)
    /\ server = [perPage |-> MockPerPage, totalCount |-> MockTotal]

NextMock ==
    \/ componentWillMount
    \/ _onRefresh
    \/ _onEndReached
    \/ MockResolved

SpecMock == InitMock /\ [][NextMock]_vars

(* --------------------- uniform-page collaborators --------------------- *)

\* A uniform-page collaborator serves server.totalCount posts, numbered from
\* 1, in pages of server.perPage; the mock API is the one with 22 and 10.
Servers == [perPage : 1..MaxUniPerPage, totalCount : 0..MaxUniTotal]

\* The number of posts on a page: a full page, the rest, or none.
UniformPageCount(page) ==
    Max(0, Min(server.perPage, server.totalCount - (page - 1) * server.perPage))

UniformRecords(page) ==
    [i \in 1..UniformPageCount(page) |-> Post((page - 1) * server.perPage + i)]

UniformResult(page) ==
    Result(page, server.perPage, server.totalCount, UniformRecords(page))

UniformResolved == \E i \in DOMAIN inflight : Resolve(i, UniformResult(inflight[i].page))

\* Mount, both gestures and successful fetches, in any interleaving.
InitUniform == Constructed(MaxUniformFetches) /\ server \in Servers

NextUniform ==
    \/ componentWillMount
    \/ _onRefresh
    \/ _onEndReached
    \/ UniformResolved

SpecUniform == InitUniform /\ [][NextUniform]_vars

\* Mount, onEndReached and successful fetches only; the budget is more than the
\* number of pages, so it never stops a request.
InitScroll == Constructed(MaxUniTotal + 1) /\ server \in Servers

NextScroll ==
    \/ componentWillMount
    \/ _onEndReached
    \/ UniformResolved

SpecScroll == InitScroll /\ [][NextScroll]_vars

\* The component is mounted, every pending promise settles, and the list view
\* keeps delivering onEndReached.
SpecScrollFair ==
    /\ SpecScroll
    /\ WF_vars(componentWillMount)
    /\ WF_vars(UniformResolved)
    /\ WF_vars(_onEndReached)

(* ------------------------------- claims ------------------------------- *)

\* What a handler can change besides the history variables.
state == <<pagination, posts, ds, inflight, calls>>

\* The pagination object holds the four numbers of a response.
HasMeta(p) == {"page", "perPage", "pageCount", "totalCount"} \subseteq DOMAIN p

\* C1: a success for page 1 leaves exactly the response's records; a success
\* for page k > 1 leaves the previous items followed by the response's
\* records, in order, nothing removed or de-duplicated.
C1_ResetOrAppend ==
    [][event' = "success" =>
        LET r == delivered'[1]
        IN  /\ r.pagination.page = 1 => posts' = r.records
            /\ r.pagination.page > 1 => posts' = posts \o r.records]_vars

\* A page-2 response of two records was appended to a list that already held
\* the same records: the list has them twice.
C1_Witness ==
    /\ event = "success"
    /\ delivered[1].pagination.page = 2
    /\ Len(delivered[1].records) = 2
    /\ Len(posts) = 4
    /\ posts[1] = posts[3]
    /\ posts[1] # posts[2]

\* C2: while pagination.loading is true, onEndReached issues no fetch and
\* changes neither pagination, items nor the render list.
C2_NoFetchWhileLoading ==
    [][(event' = "onEndReached" /\ "loading" \in DOMAIN pagination /\ pagination["loading"])
        => UNCHANGED state]_vars

\* onEndReached was delivered while a fetch was loading, with metadata that
\* says more pages exist.
C2_Witness ==
    /\ event = "onEndReached"
    /\ HasMeta(pagination)
    /\ pagination["loading"]
    /\ pagination["page"] >= 1
    /\ pagination["totalCount"] >
         (pagination["page"] - 1) * pagination["perPage"] + pagination["pageCount"]

\* C3: when totalCount <= (page - 1) * perPage + pageCount, onEndReached
\* issues no fetch and changes no state.
C3_NoFetchOnLastPage ==
    [][(/\ event' = "onEndReached"
        /\ HasMeta(pagination)
        /\ pagination["page"] >= 1
        /\ pagination["totalCount"] <=
             (pagination["page"] - 1) * pagination["perPage"] + pagination["pageCount"])
        => UNCHANGED state]_vars

\* onEndReached was delivered on the last page, at the boundary
\* totalCount = (page - 1) * perPage + pageCount, with nothing loading.
C3_Witness ==
    /\ event = "onEndReached"
    /\ HasMeta(pagination)
    /\ ~pagination["loading"]
    /\ pagination["page"] = 2
    /\ pagination["totalCount"] =
         (pagination["page"] - 1) * pagination["perPage"] + pagination["pageCount"]

\* C4: onRefresh issues exactly one fetch, for page 1, whatever the current
\* page, the loading flag and the fetches already in flight.
C4_RefreshFetchesPageOne ==
    [][event' = "onRefresh" =>
        /\ calls' = Append(calls, 1)
        /\ Len(inflight') = Len(inflight) + 1
        /\ SubSeq(inflight', 1, Len(inflight)) = inflight
        /\ inflight'[Len(inflight')].page = 1]_vars

\* onRefresh was delivered while the fetch for page 2 was in flight.
C4_Witness ==
    /\ event = "onRefresh"
    /\ Len(inflight) = 2
    /\ inflight[1].page = 2
    /\ inflight[2].page = 1
    /\ Get(pagination, "page") = 1

\* C5 as stated: after a failure is handled, items is what it was when that
\* fetch was requested, and loading is false.
C5_ItemsAsWhenRequested ==
    [][event' = "failure" =>
        /\ posts' = settled'[1].posts0
        /\ pagination'["loading"] = FALSE]_vars

\* C5 amended: after a failure is handled, items is what it was immediately
\* before the failure was handled, and loading is false.
C5_ItemsAsBeforeFailure ==
    [][event' = "failure" =>
        /\ posts' = posts
        /\ pagination'["loading"] = FALSE]_vars

\* A failure was handled after another response had changed the list since
\* the failed fetch was requested.
C5_Witness ==
    /\ event = "failure"
    /\ settled[1].posts0 # posts
    /\ posts # << >>
    /\ ~pagination["loading"]

\* No onRefresh has been delivered: after the mount, only onRefresh calls
\* API.getPosts(1) (onEndReached asks for page + 1).
NoRefresh == \A i \in 2..Len(calls) : calls[i] # 1

\* The number of posts the mock API holds on pages 1..n.
MockUpTo(n) == Min(MockTotal, n * MockPerPage)

\* C6: against the mock API (22 posts in pages of 10, always succeeding) and
\* without onRefresh, the mount fetches page 1 and leaves 10 items with
\* loading false, the next onEndReached fetches page 2 and leaves 20, the next
\* fetches page 3 and leaves 22, and no further onEndReached fetches.
C6_MockScenario ==
    (mounted /\ NoRefresh) =>
        /\ Len(calls) <= 3
        /\ \A i \in DOMAIN calls : calls[i] = i
        /\ Len(inflight) <= 1
        /\ inflight # << >> =>
              /\ inflight[1].page = Len(calls)
              /\ Len(posts) = MockUpTo(Len(calls) - 1)
        /\ inflight = << >> =>
              /\ pagination["loading"] = FALSE
              /\ ds[Len(ds)] = [type |-> "Loading", loading |-> FALSE]
              /\ Len(calls) = 1 => Len(posts) = 10
              /\ Len(calls) = 2 => Len(posts) = 20
              /\ Len(calls) = 3 => Len(posts) = 22

\* After pages 1, 2 and 3 were fetched and applied, onEndReached was delivered
\* and fetched nothing, although another call was still allowed.
C6_Witness ==
    /\ event = "onEndReached"
    /\ NoRefresh
    /\ calls = <<1, 2, 3>>
    /\ inflight = << >>
    /\ Len(posts) = 22
    /\ budget > 0

\* C7: once the first fetch has been requested, the render list is the items,
\* in order, followed by exactly one loading marker that carries
\* pagination.loading.
C7_RenderList ==
    mounted =>
        /\ Len(ds) = Len(posts) + 1
        /\ SubSeq(ds, 1, Len(posts)) = posts
        /\ ds[Len(ds)] = [type |-> "Loading", loading |-> pagination["loading"]]
        /\ \A i \in 1..Len(posts) : "type" \notin DOMAIN ds[i]

\* The render list holds several items and a marker that says loading.
C7_Witness ==
    /\ mounted
    /\ Len(posts) >= 2
    /\ pagination["loading"]
    /\ ds[Len(ds)].loading

\* C8: requesting page n sets loading, keeps page, perPage, pageCount,
\* totalCount and the items, rebuilds the render list from the unchanged items
\* plus the marker, and adds exactly one in-flight fetch, for page n.
C8_RequestFrame ==
    [][Len(calls') = Len(calls) + 1 =>
        LET n == calls'[Len(calls')]
        IN  /\ pagination'["loading"] = TRUE
            /\ DOMAIN pagination' = DOMAIN pagination \cup {"loading"}
            /\ \A k \in DOMAIN pagination \ {"loading"} : pagination'[k] = pagination[k]
            /\ posts' = posts
            /\ ds' = posts \o <<[type |-> "Loading", loading |-> TRUE]>>
            /\ Len(inflight') = Len(inflight) + 1
            /\ SubSeq(inflight', 1, Len(inflight)) = inflight
            /\ inflight'[Len(inflight')].page = n]_vars

\* Page 2 was requested from a state that held metadata and items: both are
\* still there, and loading is set.
C8_Witness ==
    /\ event = "onEndReached"
    /\ calls = <<1, 2>>
    /\ inflight # << >>
    /\ HasMeta(pagination)
    /\ pagination["page"] = 1
    /\ pagination["loading"]
    /\ posts # << >>
    /\ ds = posts \o <<[type |-> "Loading", loading |-> TRUE]>>

\* C9: onEndReached issues no fetch while the pagination object holds no
\* metadata (no success has ever been applied), also after the first fetch
\* has failed and cleared loading.
C9_NoFetchWithoutMetadata ==
    [][(event' = "onEndReached" /\ ~HasMeta(pagination)) => UNCHANGED state]_vars

\* C10: the loading marker is true exactly when a fetch is in flight.
C10_MarkerIffInFlight ==
    mounted => (ds[Len(ds)].loading <=> inflight # << >>)

\* C11: nothing cancels or discards a request: onRefresh leaves the pending
\* fetches pending, a completion settles one pending fetch and leaves the
\* others, and every response is applied when it arrives, whatever the order
\* the requests were issued in.
C11_NoCancellation ==
    [][/\ event' = "onRefresh" => SubSeq(inflight', 1, Len(inflight)) = inflight
       /\ event' \in {"success", "failure"} =>
             \E i \in DOMAIN inflight :
                /\ inflight[i] = settled'[1]
                /\ inflight' = Remove(inflight, i)
       /\ event' = "success" =>
             LET r == delivered'[1]
             IN  /\ pagination' = [page |-> r.pagination.page,
                                   perPage |-> r.pagination.perPage,
                                   pageCount |-> r.pagination.pageCount,
                                   totalCount |-> r.pagination.totalCount,
                                   loading |-> FALSE]
                 /\ Len(posts') >= Len(r.records)
                 /\ SubSeq(posts', Len(posts') - Len(r.records) + 1, Len(posts')) = r.records]_vars

\* The page-2 response, requested before the refresh, was applied after the
\* refresh's page-1 response: page is 2 and the items are the refreshed
\* page-1 records (not the items of request time) followed by the page-2
\* records.
C11_Witness ==
    /\ event = "success"
    /\ calls = <<1, 2, 1>>
    /\ inflight = << >>
    /\ settled[1].page = 2
    /\ pagination["page"] = 2
    /\ LET r == delivered[1].records
           refreshed == SubSeq(posts, 1, Len(posts) - Len(r))
       IN  /\ r # << >>
           /\ refreshed # << >>
           /\ refreshed # settled[1].posts0
           /\ posts = refreshed \o r

\* C12: handling a failure issues no fetch, and every fetch is issued by
\* exactly one mount, onRefresh or onEndReached event.
C12_NoRetry ==
    [][/\ event' = "failure" =>
             /\ calls' = calls
             /\ Len(inflight') = Len(inflight) - 1
       /\ calls' # calls =>
             /\ event' \in {"mount", "onRefresh", "onEndReached"}
             /\ Len(calls') = Len(calls) + 1
             /\ SubSeq(calls', 1, Len(calls)) = calls
             /\ Len(inflight') = Len(inflight) + 1]_vars

\* The only fetch failed, nothing is in flight and nothing was requested again,
\* although another call was still allowed.
C12_Witness ==
    /\ event = "failure"
    /\ calls = <<1>>
    /\ inflight = << >>
    /\ pagination["loading"] = FALSE
    /\ budget > 0

\* C13: pagination.page is the page of the most recently applied response
\* (a success sets it, nothing else changes it), and with loading false and
\* totalCount > (page - 1) * perPage + pageCount, onEndReached issues exactly
\* one fetch, for that page + 1.
C13_NextPageAfterApplied ==
    [][/\ event' = "success" => pagination'["page"] = delivered'[1].pagination.page
       /\ event' # "success" => Get(pagination', "page") = Get(pagination, "page")
       /\ (/\ event' = "onEndReached"
           /\ HasMeta(pagination)
           /\ pagination["page"] >= 1
           /\ pagination["loading"] = FALSE
           /\ pagination["totalCount"] >
                (pagination["page"] - 1) * pagination["perPage"] + pagination["pageCount"])
          => /\ calls' = Append(calls, pagination["page"] + 1)
             /\ Len(inflight') = Len(inflight) + 1
             /\ SubSeq(inflight', 1, Len(inflight)) = inflight
             /\ inflight'[Len(inflight')].page = pagination["page"] + 1]_vars

\* Page 2 was fetched and applied, a refresh then put page 1 back, and
\* onEndReached asked for page 2 again, not for page 3.
C13_Witness ==
    /\ event = "onEndReached"
    /\ calls = <<1, 2, 1, 2>>
    /\ Len(inflight) = 1
    /\ inflight[1].page = 2
    /\ pagination["page"] = 1
    /\ pagination["loading"]

\* C14: for a uniform-page collaborator (totalCount T, perPage > 0) and every
\* page p >= 1 with its pageCount, lastPage is true exactly when
\* p * perPage >= T, that is when the next page is empty.
C14_LastPageExact ==
    /\ \A p \in 1..(MaxUniTotal + 1) :
          LET meta == SpreadLoading(UniformResult(p).pagination, FALSE)
          IN  /\ LastPage(meta) <=> (p * server.perPage >= server.totalCount)
              /\ LastPage(meta) <=> (UniformRecords(p + 1) = << >>)
    /\ (HasMeta(pagination) /\ ~pagination["loading"]) =>
          (WantsNextPage(pagination) <=>
              pagination["page"] * server.perPage < server.totalCount)

\* onEndReached computed lastPage on a full final page (totalCount is a
\* multiple of perPage) and fetched nothing.
C14_Witness ==
    /\ event = "onEndReached"
    /\ inflight = << >>
    /\ HasMeta(pagination)
    /\ pagination["page"] >= 2
    /\ pagination["pageCount"] = pagination["perPage"]
    /\ pagination["totalCount"] = pagination["page"] * pagination["perPage"]
    /\ budget > 0

\* C15: handling a failure changes only pagination.loading (to false) and the
\* marker of the render list: page, perPage, pageCount, totalCount and the
\* items stay as they were, and the other in-flight fetches are untouched.
C15_FailureFrame ==
    [][event' = "failure" =>
        /\ DOMAIN pagination' = DOMAIN pagination
        /\ \A k \in DOMAIN pagination :
              pagination'[k] = IF k = "loading" THEN FALSE ELSE pagination[k]
        /\ posts' = posts
        /\ SubSeq(ds', 1, Len(posts)) = SubSeq(ds, 1, Len(posts))
        /\ ds' = posts \o <<[type |-> "Loading", loading |-> FALSE]>>
        /\ \E i \in DOMAIN inflight :
              /\ inflight[i] = settled'[1]
              /\ inflight' = Remove(inflight, i)
        /\ calls' = calls]_vars

\* A failure was handled while the state held metadata and items and another
\* fetch was in flight: all three are still there.
C15_Witness ==
    /\ event = "failure"
    /\ HasMeta(pagination)
    /\ pagination["page"] >= 1
    /\ pagination["loading"] = FALSE
    /\ Len(posts) >= 2
    /\ inflight # << >>

\* C16: without onRefresh, at most one fetch is in flight at any time: while
\* one is, loading is true and onEndReached requests nothing.
C16_OneInFlight ==
    /\ Len(inflight) <= 1
    /\ inflight # << >> => pagination["loading"] = TRUE

\* onEndReached was delivered while the mount's fetch was in flight and
\* requested nothing, although another call was allowed.
C16_Witness ==
    /\ event = "onEndReached"
    /\ calls = <<1>>
    /\ Len(inflight) = 1
    /\ budget > 0

\* The records a uniform-page collaborator holds on pages 1..n, in order.
RECURSIVE UniformUpTo(_)
UniformUpTo(n) == IF n = 0 THEN << >> ELSE UniformUpTo(n - 1) \o UniformRecords(n)

NoDuplicates(s) == \A i, j \in DOMAIN s : i # j => s[i] # s[j]

\* C17: without onRefresh and with successes only, against a uniform-page
\* collaborator, the items are the records of pages 1..page in order, their
\* number is (page - 1) * perPage + pageCount, no record is there twice, and
\* there are at most totalCount.
C17_ItemsArePagesInOrder ==
    HasMeta(pagination) =>
        /\ posts = UniformUpTo(pagination["page"])
        /\ Len(posts) =
              (pagination["page"] - 1) * pagination["perPage"] + pagination["pageCount"]
        /\ NoDuplicates(posts)
        /\ Len(posts) <= pagination["totalCount"]

\* The third page, a partial one, was applied: the list holds every post of
\* the collaborator.
C17_Witness ==
    /\ event = "success"
    /\ HasMeta(pagination)
    /\ pagination["page"] = 3
    /\ pagination["pageCount"] >= 1
    /\ pagination["pageCount"] < pagination["perPage"]
    /\ Len(posts) = pagination["totalCount"]
    /\ posts[Len(posts)] = Post(pagination["totalCount"])

\* C18: in any interleaving of mount, onRefresh, onEndReached and successes
\* against a uniform-page collaborator, the items hold the records of a page
\* at most once and there are at most totalCount of them.
C18_NoPageTwice ==
    /\ NoDuplicates(posts)
    /\ Len(posts) <= server.totalCount

\* The last page has been applied, nothing is loading and the items are all
\* the posts of the collaborator.
AllLoaded ==
    /\ HasMeta(pagination)
    /\ inflight = << >>
    /\ pagination["loading"] = FALSE
    /\ pagination["totalCount"] <=
          (pagination["page"] - 1) * pagination["perPage"] + pagination["pageCount"]
    /\ Len(posts) = server.totalCount
    /\ \A k \in 1..server.totalCount : posts[k] = Post(k)

\* C19: under fairness, without onRefresh and without failures, against a
\* uniform-page collaborator, the controller reaches a state where the last
\* page is applied, loading is false and the items are all totalCount posts;
\* from that state on onEndReached issues no fetch.
C19_LoadsEverythingThenStops ==
    /\ <>[]AllLoaded
    /\ [][AllLoaded => (AllLoaded' /\ calls' = calls)]_vars

\* Everything is loaded after three pages, and onEndReached was delivered
\* once more and fetched nothing, although another call was allowed.
C19_Witness ==
    /\ AllLoaded
    /\ event = "onEndReached"
    /\ calls = <<1, 2, 3>>
    /\ budget > 0

====
